---- MODULE Spec2Model ----
(***************************************************************************)
(* A model of flappy_bird.py: the Bird physics, the Pipe obstacles, the    *)
(* scrolling Base and the generation loop main(genomes, config).           *)
(*                                                                         *)
(* Units.  Bird.y, Bird.vel, Bird.height and the displacement d take       *)
(* values that are multiples of 0.5 in the program (vel = -10.5,           *)
(* d = vel*t + 1.5*t**2).  The model stores them in HALF PIXELS, so        *)
(* y = 700 stands for 350.0 and vel = -21 for -10.5.  Genome fitness moves *)
(* in steps of 0.1, 1 and 5; the model stores it in TENTHS.                *)
(* Everything else (x, tilt, tick_count, pipe fields, tilt) is in the      *)
(* program's own units.                                                    *)
(*                                                                         *)
(* Images.  The sprite files are not part of the source text; the model    *)
(* uses their sizes after scale2x and treats every mask as the solid       *)
(* rectangle of its image.                                                 *)
(***************************************************************************)
EXTENDS Integers, Sequences, FiniteSets, TLC

VARIABLES
    genomes,    \* main's argument: the network each genome decodes to
    birds,      \* main: list of Bird objects still in the active set
    nets,       \* main: list of networks, parallel to birds
    ge,         \* main: list of genomes (by identity), parallel to birds
    fitness,    \* g.fitness of every genome of the generation, in tenths
    pipes,      \* main: list of Pipe objects
    base,       \* main: the Base object (x1, x2)
    score,      \* main: score
    run,        \* main: the loop flag
    pipe_ind,   \* main: index (0-based) of the pipe fed to the networks
    pc,         \* position of main inside an iteration of the loop
    ticks,      \* history: number of loop iterations started
    nextPipe,   \* history: identity given to the next Pipe object created
    everPassed, \* history: identities of the pipes whose passed flag was set
    tested,     \* history: the pipes as they stood when last collision-tested
    dead,       \* history: why each genome's bird left the active set
    calls       \* history: per bird, the decision taken in the last move pass

vars == <<genomes, birds, nets, ge, fitness, pipes, base, score, run, pipe_ind, pc,
          ticks, nextPipe, everPassed, tested, dead, calls>>

---------------------------------------------------------------------------
(* Program constants *)

WIN_WIDTH == 500
MAX_ROTATION == 25
ROT_VEL == 20
ANIMATION_TIME == 5
GAP == 200
VEL == 5
\* sizes of the scaled images: bird 68 x 48, pipe 104 x 640, base 672 wide
BIRD_WIDTH == 68
BIRD_HEIGHT == 48
PIPE_WIDTH == 104
PIPE_HEIGHT == 640
WIDTH == 672
\* Bird(230, 350), Base(730), Pipe(700), Pipe(600)
BIRD_X == 230
BIRD_Y == 350
FLOOR == 730
FIRST_PIPE_X == 700
NEW_PIPE_X == 600
\* self.vel = -10.5 in half pixels
JUMP_VEL == -21
\* the cap on d (16) and the extra upward push (2), in half pixels
D_MAX == 32
D_UP == 4
\* self.y < self.height + 50, in half pixels
TILT_BAND == 100
\* 0.1 survival reward, 1 collision penalty, 5 pass bonus, in tenths
REWARD_TICK == 1
PENALTY_HIT == 10
REWARD_PASS == 50
\* output[0] > 0.5, in tenths
THRESHOLD == 5

---------------------------------------------------------------------------
(* Bounds of the model *)

MaxBirds == 2
MaxTicks == 175

---------------------------------------------------------------------------
(* class Bird *)

\* Bird.__init__(x, y); id is the object's identity
Bird(id, x, y) ==
    [id |-> id, x |-> x, y |-> 2 * y, tilt |-> 0, tick_count |-> 0,
     vel |-> 0, height |-> 2 * y, img_count |-> 0, img |-> 0]

\* seeded fault: Bird.jump without line 66
jumpNoHeight(b) ==
    [b EXCEPT !.vel = JUMP_VEL, !.tick_count = 0]

\* Bird.jump
jump(b) ==
    [b EXCEPT !.vel = JUMP_VEL, !.tick_count = 0, !.height = b.y]

\* the displacement d of Bird.move at tick count t, before it is added to y,
\* uncapped (used only as a seeded fault)
displacementNoCap(vel, t) ==
    LET d0 == vel * t + 3 * t * t
    IN  IF d0 < 0 THEN d0 - D_UP ELSE d0

\* the displacement d of Bird.move at tick count t, before it is added to y
displacement(vel, t) ==
    LET d0 == vel * t + 3 * t * t
        d1 == IF d0 >= D_MAX THEN D_MAX ELSE d0
    IN  IF d1 < 0 THEN d1 - D_UP ELSE d1

\* the tilt update of Bird.move, given d and the new y
newTilt(b, d, y) ==
    IF d < 0 \/ y < b.height + TILT_BAND
    THEN IF b.tilt < MAX_ROTATION THEN MAX_ROTATION ELSE b.tilt
    ELSE IF b.tilt > -90 THEN b.tilt - ROT_VEL ELSE b.tilt

\* Bird.move
move(b) ==
    LET t == b.tick_count + 1
        d == displacement(b.vel, t)
        y == b.y + d
    IN  [b EXCEPT !.tick_count = t, !.y = y, !.tilt = newTilt(b, d, y)]

\* Bird.draw: the animation frame bookkeeping (blitting changes no state)
draw(b) ==
    LET c == b.img_count + 1
        i1 == IF c < ANIMATION_TIME THEN 0
              ELSE IF c < ANIMATION_TIME * 2 THEN 1
              ELSE IF c < ANIMATION_TIME * 3 THEN 2
              ELSE IF c < ANIMATION_TIME * 4 THEN 1
              ELSE IF c = ANIMATION_TIME * 4 + 1 THEN 0
              ELSE b.img
        c1 == IF c = ANIMATION_TIME * 4 + 1 THEN 0 ELSE c
    IN  IF b.tilt <= -80
        THEN [b EXCEPT !.img = 1, !.img_count = ANIMATION_TIME * 2]
        ELSE [b EXCEPT !.img = i1, !.img_count = c1]

\* Python's round() on a value held in half pixels: to the nearest integer,
\* a tie to the even one
round(y) ==
    LET f == y \div 2
    IN  IF y % 2 = 0 THEN f
        ELSE IF f % 2 = 0 THEN f ELSE f + 1

---------------------------------------------------------------------------
(* class Pipe *)

\* random.randrange(50, 450): the heights the model draws from
PipeHeights == {250, 350}

\* Pipe.__init__(x) with set_height() having drawn height h
Pipe(id, x, h) ==
    [id |-> id, x |-> x, height |-> h, top |-> h - PIPE_HEIGHT,
     bottom |-> h + GAP, passed |-> FALSE]

\* Pipe.move
pipeMove(p) == [p EXCEPT !.x = p.x - VEL]

\* Mask.overlap(other, offset) for two solid masks: self is w1 x h1, other is
\* w2 x h2 placed at offset (ox, oy) from self's top left corner
overlap(w1, h1, w2, h2, ox, oy) ==
    /\ ox < w1
    /\ ox + w2 > 0
    /\ oy < h1
    /\ oy + h2 > 0

\* Pipe.collide(bird)
collide(p, b) ==
    LET ox == p.x - b.x
        top_oy == p.top - round(b.y)
        bottom_oy == p.bottom - round(b.y)
        b_point == overlap(BIRD_WIDTH, BIRD_HEIGHT, PIPE_WIDTH, PIPE_HEIGHT,
                           ox, bottom_oy)
        t_point == overlap(BIRD_WIDTH, BIRD_HEIGHT, PIPE_WIDTH, PIPE_HEIGHT,
                           ox, top_oy)
    IN  t_point \/ b_point

---------------------------------------------------------------------------
(* class Base *)

\* Base.__init__
Base == [x1 |-> 0, x2 |-> WIDTH]

\* seeded fault: lines 250-254 wrapping a strip to WIDTH instead of to the
\* other strip's right edge
baseMoveWrapToWidth(s) ==
    LET a1 == s.x1 - VEL
        a2 == s.x2 - VEL
    IN  [x1 |-> IF a1 + WIDTH < 0 THEN WIDTH ELSE a1,
         x2 |-> IF a2 + WIDTH < 0 THEN WIDTH ELSE a2]

\* Base.move
baseMove(s) ==
    LET a1 == s.x1 - VEL
        a2 == s.x2 - VEL
        b1 == IF a1 + WIDTH < 0 THEN a2 + WIDTH ELSE a1
        b2 == IF a2 + WIDTH < 0 THEN b1 + WIDTH ELSE a2
    IN  [x1 |-> b1, x2 |-> b2]

---------------------------------------------------------------------------
(* The networks.  nets[x].activate(inputs) is a function of its three      *)
(* inputs; the model draws each genome's network from a small family and   *)
(* returns output[0] in tenths.                                            *)

Nets ==
    { [kind |-> "low", level |-> 0],        \* output 0.0 whatever the input
      [kind |-> "half", level |-> 0],       \* output 0.5 whatever the input
      [kind |-> "high", level |-> 0],       \* output 1.0 whatever the input
      [kind |-> "hover", level |-> 370],    \* 1.0 below the level, else 0.0
      [kind |-> "hover", level |-> 450],
      [kind |-> "hover", level |-> 490] }

\* net.activate((y, |y - height|, |y - bottom|))[0]
activate(net, y, dtop, dbottom) ==
    IF net.kind = "low" THEN 0
    ELSE IF net.kind = "half" THEN 5
    ELSE IF net.kind = "high" THEN 10
    ELSE IF y > 2 * net.level THEN 10 ELSE 0

abs(v) == IF v < 0 THEN -v ELSE v

---------------------------------------------------------------------------
(* main(genomes, config): helpers for its loops *)

\* list.pop(i), i counted from 1
Pop(seq, i) == SubSeq(seq, 1, i - 1) \o SubSeq(seq, i + 1, Len(seq))

\* the identities of the genomes main may be given
GenomeIds == 1 .. MaxBirds

\* seeded fault: line 394 with >= for >
signalsAtThreshold(output) == output >= THRESHOLD

\* line 394: the test on output[0] that calls bird.jump()
signals(output) == output > THRESHOLD

\* lines 386-395: one pass of "for x, bird in enumerate(birds)" that moves
\* every bird, rewards its genome and lets its network decide on a jump;
\* s = [birds, fitness, calls], ind = pipe_ind.  calls notes, per bird, the
\* inputs handed to activate, output[0] and the number of jump() calls.
RECURSIVE moveLoop(_, _, _)
moveLoop(i, s, ind) ==
    IF i > Len(s.birds) THEN s
    ELSE LET b1 == move(s.birds[i])
             p == pipes[ind + 1]
             dtop == abs(b1.y - 2 * p.height)
             dbottom == abs(b1.y - 2 * p.bottom)
             output == activate(nets[i], b1.y, dtop, dbottom)
             b2 == IF signals(output) THEN jump(b1) ELSE b1
         IN  moveLoop(i + 1,
                      [s EXCEPT !.birds[i] = b2,
                                !.fitness[ge[i]] = @ + REWARD_TICK,
                                !.calls = Append(@,
                                    [id |-> b1.id, y |-> b1.y, dtop |-> dtop,
                                     dbottom |-> dbottom, output |-> output,
                                     jumps |-> IF signals(output)
                                               THEN 1 ELSE 0])],
                      ind)

\* seeded fault: line 413 without "not pipe.passed"
passesAgain(pipe, bird, passed) == pipe.x < bird.x

\* line 413: the test that marks a pipe passed, on account of bird
passes(pipe, bird, passed) == ~passed /\ pipe.x < bird.x

\* seeded fault: line 418 against the right edge of the window
offScreenRightEdge(pipe) == pipe.x + PIPE_WIDTH < WIN_WIDTH

\* seeded fault: line 418 a window's width too late
offScreenLate(pipe) == pipe.x + PIPE_WIDTH < -WIN_WIDTH

\* seeded fault: line 418 without the pipe's width
offScreenLeftEdge(pipe) == pipe.x < 0

\* line 418: the test that retires a pipe
offScreen(pipe) == pipe.x + PIPE_WIDTH < 0

\* seeded fault: lines 372-377 with the pipe's left edge for its right edge
pipeIndexLeftEdge(bs, ps) ==
    IF Len(ps) > 1 /\ bs[1].x > ps[1].x THEN 1 ELSE 0

\* lines 372-377: pipe_ind for a non-empty list of birds
pipeIndex(bs, ps) ==
    IF Len(ps) > 1 /\ bs[1].x > ps[1].x + PIPE_WIDTH THEN 1 ELSE 0

\* seeded fault: lines 405-410 with the pops before the penalty, which then
\* falls on the genome that moved into position x
RECURSIVE collideLoopPopFirst(_, _, _)
collideLoopPopFirst(pipe, i, s) ==
    IF i > Len(s.birds) THEN s
    ELSE LET bird == s.birds[i]
             hit == collide(pipe, bird)
             p1 == [s EXCEPT !.birds = Pop(@, i), !.nets = Pop(@, i),
                             !.ge = Pop(@, i), !.dead[bird.id] = "pipe"]
             s1 == IF ~hit THEN s
                   ELSE IF i > Len(p1.ge) THEN p1
                   ELSE [p1 EXCEPT !.fitness[p1.ge[i]] = @ - PENALTY_HIT]
             s2 == IF passes(pipe, bird, s1.passed)
                   THEN [s1 EXCEPT !.passed = TRUE, !.add_pipe = TRUE]
                   ELSE s1
         IN  collideLoopPopFirst(pipe, i + 1, s2)

\* lines 401-415: the inner loop "for x, bird in enumerate(birds)" for one
\* pipe.  The list iterator holds a position: after birds.pop(x) the next
\* element visited is the one at position x + 1 of the shortened list.
\* s = [birds, nets, ge, fitness, passed, add_pipe, dead]
RECURSIVE collideLoop(_, _, _)
collideLoop(pipe, i, s) ==
    IF i > Len(s.birds) THEN s
    ELSE LET bird == s.birds[i]
             hit == collide(pipe, bird)
             s1 == IF hit
                   THEN [s EXCEPT !.fitness[s.ge[i]] = @ - PENALTY_HIT,
                                  !.birds = Pop(@, i),
                                  !.nets = Pop(@, i),
                                  !.ge = Pop(@, i),
                                  !.dead[bird.id] = "pipe"]
                   ELSE s
             s2 == IF passes(pipe, bird, s1.passed)
                   THEN [s1 EXCEPT !.passed = TRUE, !.add_pipe = TRUE]
                   ELSE s1
         IN  collideLoop(pipe, i + 1, s2)

\* lines 400-421: the outer loop "for pipe in pipes"; j is the position in
\* pipes, s = [birds, nets, ge, fitness, pipes, rem, add_pipe, dead, flagged]
RECURSIVE pipeLoop(_, _)
pipeLoop(j, s) ==
    IF j > Len(s.pipes) THEN s
    ELSE LET pipe == s.pipes[j]
             r == collideLoop(pipe, 1,
                     [birds |-> s.birds, nets |-> s.nets, ge |-> s.ge,
                      fitness |-> s.fitness, passed |-> pipe.passed,
                      add_pipe |-> s.add_pipe, dead |-> s.dead])
             rem == IF offScreen(pipe)
                    THEN s.rem \cup {pipe.id} ELSE s.rem
             moved == pipeMove([pipe EXCEPT !.passed = r.passed])
         IN  pipeLoop(j + 1,
                 [birds |-> r.birds, nets |-> r.nets, ge |-> r.ge,
                  fitness |-> r.fitness,
                  pipes |-> [s.pipes EXCEPT ![j] = moved],
                  rem |-> rem, add_pipe |-> r.add_pipe, dead |-> r.dead,
                  flagged |-> IF r.passed /\ ~pipe.passed
                              THEN s.flagged \cup {pipe.id} ELSE s.flagged])

\* seeded fault: lines 425-427 over every genome of the generation
passBonusAll(fit, gs) == [g \in DOMAIN fit |-> fit[g] + REWARD_PASS]

\* lines 425-427: "for g in ge: g.fitness += 5"
passBonus(fit, gs) ==
    [g \in DOMAIN fit |->
        IF \E i \in 1 .. Len(gs) : gs[i] = g
        THEN fit[g] + REWARD_PASS ELSE fit[g]]

\* lines 431-432: "for r in rem: pipes.remove(r)"
removePipes(ps, rem) == SelectSeq(ps, LAMBDA p : p.id \notin rem)

\* seeded fault: line 436 without the ground test
outOfBoundsCeilingOnly(bird) == bird.y < 0

\* line 436: the ground and ceiling test
outOfBounds(bird) ==
    bird.y + 2 * BIRD_HEIGHT >= 2 * FLOOR \/ bird.y < 0

\* seeded fault: lines 438-440 without nets.pop(x)
RECURSIVE boundsLoopKeepsNet(_, _)
boundsLoopKeepsNet(i, s) ==
    IF i > Len(s.birds) THEN s
    ELSE LET bird == s.birds[i]
         IN  boundsLoopKeepsNet(i + 1,
                 IF outOfBounds(bird)
                 THEN [s EXCEPT !.birds = Pop(@, i), !.ge = Pop(@, i),
                                !.dead[bird.id] = "bound"]
                 ELSE s)

\* lines 434-440: "for x, bird in enumerate(birds)" with pops, as above;
\* s = [birds, nets, ge, dead]
RECURSIVE boundsLoop(_, _)
boundsLoop(i, s) ==
    IF i > Len(s.birds) THEN s
    ELSE LET bird == s.birds[i]
         IN  boundsLoop(i + 1,
                 IF outOfBounds(bird)
                 THEN [s EXCEPT !.birds = Pop(@, i), !.nets = Pop(@, i),
                                !.ge = Pop(@, i), !.dead[bird.id] = "bound"]
                 ELSE s)

\* draw_window: bird.draw for every bird left
drawBirds(bs) == [i \in 1 .. Len(bs) |-> draw(bs[i])]

---------------------------------------------------------------------------
(* main(genomes, config): the state machine *)

\* lines 323-353: the state when the loop is first entered, for n genomes
\* with networks net[1..n] and a first pipe of height h
Init ==
    \E n \in 1 .. MaxBirds :
    \E net \in [1 .. n -> Nets] :
    \E h \in PipeHeights :
        /\ genomes = net
        /\ birds = [i \in 1 .. n |-> Bird(i, BIRD_X, BIRD_Y)]
        /\ nets = [i \in 1 .. n |-> net[i]]
        /\ ge = [i \in 1 .. n |-> i]
        /\ fitness = [g \in 1 .. n |-> 0]
        /\ pipes = <<Pipe(1, FIRST_PIPE_X, h)>>
        /\ base = Base
        /\ score = 0
        /\ run = TRUE
        /\ pipe_ind = 0
        /\ pc = "top"
        /\ ticks = 0
        /\ nextPipe = 2
        /\ everPassed = {}
        /\ tested = <<>>
        /\ dead = [g \in 1 .. n |-> "alive"]
        /\ calls = <<>>

\* lines 361-369: a QUIT event ends the process at the top of an iteration
Quit ==
    /\ pc = "top"
    /\ run
    /\ pc' = "quit"
    /\ run' = FALSE
    /\ UNCHANGED <<calls, genomes, birds, nets, ge, fitness, pipes, base, score,
                   pipe_ind, ticks, nextPipe, everPassed, tested, dead>>

\* seeded fault: lines 373-383 ending the generation with one bird left
TickTopOffByOne ==
    /\ pc = "top"
    /\ run
    /\ ticks < MaxTicks
    /\ IF Len(birds) > 1
       THEN /\ pipe_ind' = pipeIndex(birds, pipes)
            /\ pc' = "move"
            /\ ticks' = ticks + 1
            /\ run' = run
       ELSE /\ pipe_ind' = 0
            /\ pc' = "ended"
            /\ ticks' = ticks
            /\ run' = FALSE
    /\ UNCHANGED <<calls, genomes, birds, nets, ge, fitness, pipes, base, score,
                   nextPipe, everPassed, tested, dead>>

\* lines 356-383: the loop test and the choice of pipe_ind, or the end of the
\* generation
TickTop ==
    /\ pc = "top"
    /\ run
    /\ ticks < MaxTicks
    /\ IF Len(birds) > 0
       THEN /\ pipe_ind' = pipeIndex(birds, pipes)
            /\ pc' = "move"
            /\ ticks' = ticks + 1
            /\ run' = run
       ELSE /\ pipe_ind' = 0
            /\ pc' = "ended"
            /\ ticks' = ticks
            /\ run' = FALSE
    /\ UNCHANGED <<calls, genomes, birds, nets, ge, fitness, pipes, base, score,
                   nextPipe, everPassed, tested, dead>>

\* lines 386-395: move the birds; pipes[pipe_ind] out of range raises
\* IndexError out of main
MoveBirds ==
    /\ pc = "move"
    /\ IF pipe_ind + 1 > Len(pipes)
       THEN /\ pc' = "error"
            /\ birds' = [birds EXCEPT ![1] = move(@)]
            /\ fitness' = [fitness EXCEPT ![ge[1]] = @ + REWARD_TICK]
            /\ calls' = <<>>
       ELSE LET s == moveLoop(1, [birds |-> birds, fitness |-> fitness,
                                  calls |-> <<>>],
                              pipe_ind)
            IN  /\ pc' = "pipes"
                /\ birds' = s.birds
                /\ fitness' = s.fitness
                /\ calls' = s.calls
    /\ UNCHANGED <<genomes, nets, ge, pipes, base, score, run, pipe_ind,
                   ticks, nextPipe, everPassed, tested, dead>>

\* lines 397-432: collisions, passing, moving the pipes, scoring, adding and
\* removing pipes
MovePipes ==
    /\ pc = "pipes"
    /\ \E h \in PipeHeights :
       LET s == pipeLoop(1, [birds |-> birds, nets |-> nets, ge |-> ge,
                             fitness |-> fitness, pipes |-> pipes,
                             rem |-> {}, add_pipe |-> FALSE, dead |-> dead,
                             flagged |-> {}])
       IN  /\ birds' = s.birds
           /\ nets' = s.nets
           /\ ge' = s.ge
           /\ dead' = s.dead
           /\ everPassed' = everPassed \cup s.flagged
           /\ tested' = pipes
           /\ IF s.add_pipe
              THEN /\ score' = score + 1
                   /\ fitness' = passBonus(s.fitness, s.ge)
                   /\ pipes' = removePipes(
                                  Append(s.pipes, Pipe(nextPipe, NEW_PIPE_X, h)),
                                  s.rem)
                   /\ nextPipe' = nextPipe + 1
              ELSE /\ score' = score
                   /\ fitness' = s.fitness
                   /\ pipes' = removePipes(s.pipes, s.rem)
                   /\ nextPipe' = nextPipe
    /\ pc' = "bounds"
    /\ UNCHANGED <<calls, genomes, base, run, pipe_ind, ticks>>

\* lines 434-446: ground and ceiling, the base, the drawing
Bounds ==
    /\ pc = "bounds"
    /\ LET s == boundsLoop(1, [birds |-> birds, nets |-> nets, ge |-> ge,
                               dead |-> dead])
       IN  /\ birds' = drawBirds(s.birds)
           /\ nets' = s.nets
           /\ ge' = s.ge
           /\ dead' = s.dead
    /\ base' = baseMove(base)
    /\ pc' = "top"
    /\ UNCHANGED <<calls, genomes, fitness, pipes, score, run, pipe_ind, ticks,
                   nextPipe, everPassed, tested>>

Next == Quit \/ TickTop \/ MoveBirds \/ MovePipes \/ Bounds

Spec == Init /\ [][Next]_vars

---------------------------------------------------------------------------
(* A single Bird driven by arbitrary calls of move() and jump(), from the   *)
(* Bird(230, 350) that main creates, for as long as it is inside the       *)
(* window (main drops a bird that is not).                                 *)

InitBird ==
    /\ genomes = <<>>
    /\ birds = <<Bird(1, BIRD_X, BIRD_Y)>>
    /\ nets = <<>>
    /\ ge = <<>>
    /\ fitness = <<>>
    /\ pipes = <<>>
    /\ base = Base
    /\ score = 0
    /\ run = TRUE
    /\ pipe_ind = 0
    /\ pc = "bird"
    /\ ticks = 0
    /\ nextPipe = 1
    /\ everPassed = {}
    /\ tested = <<>>
    /\ dead = <<>>
    /\ calls = <<>>

\* a call of Bird.move
CallMove ==
    /\ pc = "bird"
    /\ ~outOfBounds(birds[1])
    /\ birds' = <<move(birds[1])>>
    /\ UNCHANGED <<calls, genomes, nets, ge, fitness, pipes, base, score, run,
                   pipe_ind, pc, ticks, nextPipe, everPassed, tested, dead>>

\* a call of Bird.jump
CallJump ==
    /\ pc = "bird"
    /\ ~outOfBounds(birds[1])
    /\ birds' = <<jump(birds[1])>>
    /\ UNCHANGED <<calls, genomes, nets, ge, fitness, pipes, base, score, run,
                   pipe_ind, pc, ticks, nextPipe, everPassed, tested, dead>>

NextBird == CallMove \/ CallJump

SpecBird == InitBird /\ [][NextBird]_vars

---------------------------------------------------------------------------
(* The Base of a game driven by arbitrary many calls of move(), beside the *)
(* birds, the pipe, the score and the fitness values that main has created *)
(* with it.                                                                *)

InitBase ==
    \E n \in 1 .. MaxBirds :
    \E net \in [1 .. n -> Nets] :
    \E h \in PipeHeights :
        /\ genomes = net
        /\ birds = [i \in 1 .. n |-> Bird(i, BIRD_X, BIRD_Y)]
        /\ nets = [i \in 1 .. n |-> net[i]]
        /\ ge = [i \in 1 .. n |-> i]
        /\ fitness = [g \in 1 .. n |-> 0]
        /\ pipes = <<Pipe(1, FIRST_PIPE_X, h)>>
        /\ base = Base
        /\ score = 0
        /\ run = TRUE
        /\ pipe_ind = 0
        /\ pc = "base"
        /\ ticks = 0
        /\ nextPipe = 2
        /\ everPassed = {}
        /\ tested = <<>>
        /\ dead = [g \in 1 .. n |-> "alive"]
        /\ calls = <<>>

\* a call of Base.move: it assigns self.x1 and self.x2 and nothing else
CallBaseMove ==
    /\ pc = "base"
    /\ base' = baseMove(base)
    /\ UNCHANGED <<calls, genomes, birds, nets, ge, fitness, pipes, score,
                   run, pipe_ind, pc, ticks, nextPipe, everPassed, tested,
                   dead>>

NextBase == CallBaseMove

SpecBase == InitBase /\ [][NextBase]_vars

---------------------------------------------------------------------------
(* Claims *)

\* C1: after any sequence of move() and jump() calls on a fresh Bird, tilt
\* lies in [-90, 25].
C1_TiltInRange ==
    \A i \in 1 .. Len(birds) : birds[i].tilt >= -90 /\ birds[i].tilt <= 25

\* C7: a single move() changes y by at most +16 pixels (32 half pixels);
\* jump() leaves y alone.
C7_DeltaAtMost16 ==
    [][pc = "bird" => birds'[1].y - birds[1].y <= 2 * 16]_vars

\* C7 witness: four moves from rest; the fourth has d = 24 before the cap
C7_Witness ==
    /\ pc = "bird"
    /\ birds[1].vel = 0
    /\ birds[1].tick_count = 4
    /\ birds[1].y = 2 * BIRD_Y + 3 + 12 + 27 + 32

\* C2: in every step score grows by 1 exactly when some pipe's passed flag
\* goes from false to true, and by 0 otherwise; between ticks score is the
\* number of pipes ever marked passed.
C2_ScoreOncePerPass ==
    /\ [](pc = "top" => score = Cardinality(everPassed))
    /\ [][LET flagged == \E i \in 1 .. Len(pipes) :
                           /\ ~pipes[i].passed
                           /\ \E j \in 1 .. Len(pipes') :
                                /\ pipes'[j].id = pipes[i].id
                                /\ pipes'[j].passed
          IN  score' = score + (IF flagged THEN 1 ELSE 0)]_vars

\* C2 witness: two birds have passed the first pipe, which is still in the
\* list behind them, and score is 1
C2_Witness ==
    /\ pc = "top"
    /\ Len(birds) = 2
    /\ Len(pipes) = 2
    /\ pipes[1].passed
    /\ pipes[1].x < BIRD_X - PIPE_WIDTH
    /\ score = 1

\* C3: at the end of tick k every genome still in the active set has fitness
\* 0.1 * k + 5 * p, p the number of score increments so far (fitness is held
\* in tenths).
C3_SurvivorFitness ==
    (pc = "top" /\ ticks >= 1) =>
        \A i \in 1 .. Len(ge) : fitness[ge[i]] = ticks + 50 * score

\* C3 witness: a survivor after a pass, in a generation where another bird
\* was removed for a collision
C3_Witness ==
    /\ pc = "top"
    /\ score >= 1
    /\ Len(ge) >= 1
    /\ \E g \in DOMAIN dead : dead[g] = "pipe"

\* C4: without a QUIT event the loop ends at the top of an iteration exactly
\* when the list of birds is empty, and that iteration changes no bird, pipe,
\* score or fitness.
C4_EndsIffEmpty ==
    /\ [](pc = "ended" => Len(birds) = 0 /\ ~run)
    /\ [][/\ pc' = "ended" => pc \in {"top", "ended"}
          /\ (pc = "top" /\ pc' \notin {"top", "quit"}) =>
                /\ (pc' = "ended") <=> (Len(birds) = 0)
                /\ (pc' = "move") <=> (Len(birds) > 0)
                /\ pc' = "ended" =>
                     /\ ~run'
                     /\ UNCHANGED <<birds, nets, ge, pipes, score, fitness,
                                    base>>
         ]_vars

\* C4 witness: a generation that ended after a pass
C4_Witness == pc = "ended" /\ ticks > 100 /\ score >= 1

\* C5: after the collision pass of a tick no bird left in the active set
\* overlaps a pipe at the positions the pass tested.
C5_NoSurvivorOverlaps ==
    pc = "bounds" =>
        \A i \in 1 .. Len(birds) : \A j \in 1 .. Len(tested) :
            ~collide(tested[j], birds[i])

\* C6: at the end of every tick no bird left in the active set is out of
\* bounds.
C6_NoSurvivorOutOfBounds ==
    (pc = "top" /\ ticks >= 1) =>
        \A i \in 1 .. Len(birds) : ~outOfBounds(birds[i])

\* C8: wherever pipes[pipe_ind] is read the list of pipes is non-empty and
\* pipe_ind is a valid index; the list is never empty.
C8_ActivePipeExists ==
    /\ pc # "error"
    /\ Len(pipes) >= 1
    /\ pc = "move" => pipe_ind + 1 <= Len(pipes)

\* C8 witness: the networks are fed the second pipe after the first one was
\* retired
C8_Witness ==
    /\ pc = "move"
    /\ Len(pipes) = 1
    /\ pipes[1].id = 2
    /\ pipe_ind = 0

\* C9: the pipe fed to the networks is the nearest one whose right edge is
\* not left of the lead bird's x; index 1 is chosen exactly when there are
\* two pipes and the lead bird's x exceeds the first one's right edge.
C9_NearestPipeAhead ==
    pc = "move" =>
        LET bx == birds[1].x
            chosen == pipes[pipe_ind + 1]
        IN  /\ pipe_ind \in {0, 1}
            /\ (pipe_ind = 1) <=>
                  (Len(pipes) = 2 /\ bx > pipes[1].x + PIPE_WIDTH)
            /\ chosen.x + PIPE_WIDTH >= bx
            /\ \A j \in 1 .. Len(pipes) :
                  pipes[j].x + PIPE_WIDTH >= bx => chosen.x <= pipes[j].x

\* C9 witness: the first pipe is wholly behind the lead bird and the second
\* pipe is chosen
C9_Witness ==
    /\ pc = "move"
    /\ pipe_ind = 1
    /\ pipes[1].x + PIPE_WIDTH < birds[1].x

\* a genome whose network never signals a jump
NeverJumps(g) ==
    g \in DOMAIN genomes /\ genomes[g].kind \in {"low", "half"}

\* the first pipe is still wholly to the right of the birds, nothing has been
\* passed and score is 0
FirstPipeAhead ==
    /\ Len(pipes) = 1
    /\ pipes[1].id = 1
    /\ ~pipes[1].passed
    /\ pipes[1].x > BIRD_X + BIRD_WIDTH
    /\ everPassed = {}
    /\ score = 0

\* C10: a bird whose network never signals a jump is removed by the ground
\* rule and never by a collision: in every state it is either still falling
\* in a running loop with the first pipe wholly to its right, nothing passed
\* and score 0, or it has been removed at the ground, which is the case from
\* tick 82 on at the latest; and the step that removes it is taken with the
\* first pipe still in that position.
C10_FallsToGround ==
    /\ [](\A g \in GenomeIds :
            NeverJumps(g) =>
                /\ dead[g] \in {"alive", "bound"}
                /\ ticks > 81 => dead[g] = "bound"
                /\ dead[g] = "alive" =>
                     /\ FirstPipeAhead
                     /\ pc \in {"top", "move", "pipes", "bounds", "quit"}
                     /\ \E i \in 1 .. Len(birds) : birds[i].id = g)
    /\ [][\A g \in GenomeIds :
            (NeverJumps(g) /\ dead[g] = "alive" /\ dead'[g] # "alive") =>
                /\ dead'[g] = "bound"
                /\ \E i \in 1 .. Len(birds) :
                      /\ birds[i].id = g
                      /\ birds[i].y + 2 * BIRD_HEIGHT >= 2 * FLOOR
                /\ \A i \in 1 .. Len(birds') : birds'[i].id # g
                /\ FirstPipeAhead'
         ]_vars

\* C10 witness: a never-jumping bird has just been removed at the ground
C10_Witness ==
    /\ pc = "top"
    /\ \E g \in GenomeIds :
          /\ NeverJumps(g)
          /\ dead[g] = "bound"
          /\ genomes[g].kind = "low"
    /\ Len(birds) = 0
    /\ FirstPipeAhead
    /\ ticks = 23

\* C11: in the move pass of a tick every bird is advanced, its genome is
\* rewarded 0.1, its network is activated on the y reached by the advance,
\* and jump() is called once if output[0] > 0.5 and not at all otherwise;
\* the pass removes no bird, and birds are removed only by the later
\* collision and boundary passes.
C11_MoveRewardDecideJump ==
    /\ [][(pc = "move" /\ pc' = "pipes") =>
            /\ Len(birds') = Len(birds)
            /\ ge' = ge /\ nets' = nets /\ dead' = dead
            /\ Len(calls') = Len(birds)
            /\ \A i \in 1 .. Len(birds) :
                 LET c == calls'[i]
                     p == pipes[pipe_ind + 1]
                 IN  /\ c.id = birds[i].id /\ birds'[i].id = c.id
                     /\ birds'[i].tick_count \in {0, birds[i].tick_count + 1}
                     /\ c.y = birds'[i].y
                     /\ c.dtop = abs(c.y - 2 * p.height)
                     /\ c.dbottom = abs(c.y - 2 * p.bottom)
                     /\ c.jumps \in {0, 1}
                     /\ (c.jumps = 1) <=> (c.output > 5)
                     /\ (c.jumps = 1) <=> (birds'[i].tick_count = 0)
                     /\ fitness'[ge[i]] = fitness[ge[i]] + 1
         ]_vars
    /\ [][dead' # dead => pc \in {"pipes", "bounds"}]_vars

\* C11 witness: after a move pass, one network gave exactly 0.5 and its bird
\* did not jump, another gave 1.0 and its bird jumped
C11_Witness ==
    /\ pc = "pipes"
    /\ \E i, j \in 1 .. Len(calls) :
          /\ calls[i].output = 5 /\ calls[i].jumps = 0
          /\ birds[i].tick_count > 0
          /\ calls[j].output = 10 /\ calls[j].jumps = 1
          /\ birds[j].tick_count = 0

\* C12: jump() sets vel to -10.5 (-21 half pixels), tick_count to 0 and
\* height to the current y and leaves x, y and tilt alone; move() leaves x,
\* vel and height alone; a bird's x never changes.  A call that raises
\* tick_count by one is a move(), any other call is a jump().
C12_JumpMoveFrame ==
    /\ [](\A i \in 1 .. Len(birds) : birds[i].x = 230)
    /\ [][pc = "bird" =>
            LET b == birds[1]
                c == birds'[1]
            IN  IF c.tick_count = b.tick_count + 1
                THEN c.x = b.x /\ c.vel = b.vel /\ c.height = b.height
                ELSE /\ c.vel = -21 /\ c.tick_count = 0 /\ c.height = b.y
                     /\ c.x = b.x /\ c.y = b.y /\ c.tilt = b.tilt
         ]_vars

\* C12 witness: a jump taken after a fall that had tilted the bird downward
C12_Witness ==
    /\ pc = "bird"
    /\ birds[1].vel = -21
    /\ birds[1].tick_count = 0
    /\ birds[1].height = birds[1].y
    /\ birds[1].y > 2 * BIRD_Y
    /\ birds[1].tilt < 0

\* C13: a pipe is marked passed only on account of a bird that stays in the
\* active set: a collision pass that removes every bird sets no passed flag
\* and leaves score unchanged.
C13_PassNeedsLivingBird ==
    [][(pc = "pipes" /\ Len(birds) > 0 /\ Len(birds') = 0) =>
          /\ score' = score
          /\ everPassed' = everPassed
      ]_vars

\* C14: birds, nets and ge always have the same length and position i of the
\* three holds the bird, the network and the genome of one and the same
\* genome; in the collision pass the penalty of 1 comes off the fitness of
\* exactly the genomes whose birds that pass removed, once, and the only
\* other change of fitness in that pass is the bonus of 5 for a pass, given
\* to the genomes left in ge.
C14_ParallelLists ==
    /\ [](pc # "bird" =>
            /\ Len(birds) = Len(nets)
            /\ Len(birds) = Len(ge)
            /\ \A i \in 1 .. Len(ge) :
                 /\ birds[i].id = ge[i]
                 /\ nets[i] = genomes[ge[i]]
                 /\ dead[ge[i]] = "alive"
            /\ \A i, j \in 1 .. Len(ge) : i # j => ge[i] # ge[j])
    /\ [][pc = "pipes" =>
            \A g \in DOMAIN fitness :
                LET hit == dead[g] = "alive" /\ dead'[g] = "pipe"
                    left == \E i \in 1 .. Len(ge') : ge'[i] = g
                IN  fitness'[g] = fitness[g]
                                  - (IF hit THEN 10 ELSE 0)
                                  + (IF left /\ score' > score THEN 50 ELSE 0)
         ]_vars

\* C14 witness: the first of two birds was removed for a collision and paid
\* the penalty, the second is alone in the lists and paid none
C14_Witness ==
    /\ pc = "bounds"
    /\ DOMAIN dead = {1, 2}
    /\ dead[1] = "pipe"
    /\ ge = <<2>>
    /\ birds[1].id = 2
    /\ fitness[1] = ticks - 10
    /\ fitness[2] = ticks

\* C15: the pass over the pipes appends exactly one new pipe, at x = 600 and
\* not passed, at the end of the list, when a passed flag was set in that
\* tick, and none otherwise; no other step of the tick touches the pipes, so
\* the new pipe ends its first tick at x = 600.
C15_OneSpawnPerPass ==
    /\ [][pc = "pipes" =>
            LET old == {pipes[i].id : i \in 1 .. Len(pipes)}
                new == {j \in 1 .. Len(pipes') : pipes'[j].id \notin old}
                flagged == everPassed' # everPassed
            IN  /\ Cardinality(new) = IF flagged THEN 1 ELSE 0
                /\ \A j \in new :
                     /\ j = Len(pipes')
                     /\ pipes'[j].x = 600
                     /\ ~pipes'[j].passed
         ]_vars
    /\ [][pc # "pipes" => pipes' = pipes]_vars

\* C15 witness: the end of the tick in which the first pipe was passed
C15_Witness ==
    /\ pc = "top"
    /\ score = 1
    /\ Len(pipes) = 2
    /\ pipes[1].passed /\ pipes[1].x = 220
    /\ pipes[2].id = 2 /\ pipes[2].x = 600 /\ ~pipes[2].passed

\* C16: between ticks the list holds at most two pipes, in strictly
\* ascending x; when it holds two, the first is passed and the second is
\* not; and no step sets the passed flag of more than one pipe.
C16_AtMostTwoPipes ==
    /\ [](pc = "top" =>
            /\ Len(pipes) <= 2
            /\ \A i, j \in 1 .. Len(pipes) : i < j => pipes[i].x < pipes[j].x
            /\ Len(pipes) = 2 => pipes[1].passed /\ ~pipes[2].passed)
    /\ [][Cardinality(everPassed' \ everPassed) <= 1]_vars

\* C16 witness: two pipes between ticks, the first one about to be retired
C16_Witness ==
    /\ pc = "top"
    /\ Len(pipes) = 2
    /\ pipes[1].x + PIPE_WIDTH < 0
    /\ pipes[1].passed
    /\ ~pipes[2].passed
    /\ pipes[2].x > BIRD_X

\* C17: the pipe pass removes a pipe from the list if and only if its right
\* edge, x + pipe width as examined in that pass (before the pipe's move), is
\* below 0; a removed pipe was already passed; and no other step removes a
\* pipe.
C17_RemovedIffOffScreen ==
    /\ [][pc = "pipes" =>
            \A j \in 1 .. Len(pipes) :
                LET removed == \A k \in 1 .. Len(pipes') :
                                   pipes'[k].id # pipes[j].id
                IN  /\ removed <=> pipes[j].x + PIPE_WIDTH < 0
                    /\ removed => pipes[j].passed
         ]_vars
    /\ [][pc # "pipes" => pipes' = pipes]_vars

\* C17 witness: the first pipe has just been retired with its right edge
\* one pixel left of 0, and only its successor is left
C17_Witness ==
    /\ pc = "bounds"
    /\ Len(tested) = 2
    /\ tested[1].id = 1 /\ tested[1].x + PIPE_WIDTH = -1 /\ tested[1].passed
    /\ Len(pipes) = 1
    /\ pipes[1].id = 2

\* C18: after any number of Base.move() calls from (0, WIDTH) the two
\* offsets are exactly WIDTH apart, the smaller is <= 0 and the larger plus
\* WIDTH is >= WIN_WIDTH; and a call changes no bird, net, genome, pipe,
\* score or fitness.
C18_BaseSeamless ==
    /\ [](LET lo == IF base.x1 < base.x2 THEN base.x1 ELSE base.x2
              hi == IF base.x1 < base.x2 THEN base.x2 ELSE base.x1
          IN  /\ abs(base.x1 - base.x2) = WIDTH
              /\ lo <= 0
              /\ hi + WIDTH >= WIN_WIDTH)
    /\ [][pc = "base" /\ base' # base =>
            UNCHANGED <<birds, nets, ge, fitness, pipes, score, run,
                        genomes>>]_vars

\* C18 witness: both strips have wrapped, x1 first and x2 after it
C18_Witness ==
    /\ pc = "base"
    /\ base.x1 < base.x2
    /\ base.x1 = -6
    /\ base.x2 = WIDTH - 6
    /\ Len(birds) > 0 /\ Len(pipes) > 0

\* C19: the boundary pass changes no fitness value; a genome that is no
\* longer in the active lists keeps its fitness in every later step and
\* never comes back into the lists (neither it nor its bird); and a genome
\* leaving in the pipe pass leaves with the collision penalty alone.
C19_RemovalFreezesFitness ==
    /\ [][pc = "bounds" => fitness' = fitness]_vars
    /\ [][\A g \in DOMAIN fitness :
            LET in(q) == \E i \in 1 .. Len(q) : q[i] = g
                flies(bs) == \E i \in 1 .. Len(bs) : bs[i].id = g
            IN  /\ ~in(ge) =>
                    /\ fitness'[g] = fitness[g]
                    /\ ~in(ge')
                    /\ ~flies(birds')
                /\ in(ge) /\ ~in(ge') /\ pc = "pipes" =>
                    fitness'[g] = fitness[g] - PENALTY_HIT
         ]_vars

\* C19 witness: one genome fell to the ground at tick 23 and the other has
\* since passed the first pipe; the first still has its 2.3
C19_Witness ==
    /\ pc = "top"
    /\ score = 1
    /\ Len(ge) = 1
    /\ \E g \in DOMAIN fitness :
         /\ g # ge[1]
         /\ dead[g] = "bound"
         /\ fitness[g] = 23 * REWARD_TICK
         /\ fitness[ge[1]] = 96 * REWARD_TICK + REWARD_PASS

====
